---------------------------- MODULE Spec2Model ----------------------------
(***************************************************************************)
(* xenia Vulkan BufferCache (src/src/xenia/gpu/vulkan/buffer_cache.cc).    *)
(*                                                                         *)
(* Sizes, guest addresses and arena offsets are counted in 4-byte words,   *)
(* so that the 32-bit guest address space (2^32 bytes = 2^30 words) fits   *)
(* the model checker's integers.  The transient ring buffer                *)
(* (ui::vulkan::CircularBuffer) is not part of the sources at hand; its    *)
(* operations are modelled from section 4.1 of the specification.          *)
(***************************************************************************)
EXTENDS Integers, Sequences, FiniteSets, TLC

VARIABLES
  transient_cache,  \* BufferCache::transient_cache_ : set of [addr, len, off]
  allocations,      \* CircularBuffer: outstanding allocations, grant order
  write_head,       \* CircularBuffer: write cursor
  signaled,         \* fences the device has signaled
  capacity,         \* CircularBuffer capacity (fixed at construction)
  alignment,        \* CircularBuffer alignment (fixed at construction)
  call,             \* the last operation: arguments, result, steps performed
  probe,            \* history: an earlier successful UploadVertexBuffer call
  invalidated,      \* history: cache cleared and no UploadVertexBuffer since
  copy,             \* copy engine: one call's arguments and the bytes written
  arena,            \* arena contents SpecData follows: what each copy wrote
  lease,            \* history: a range UploadVertexBuffer returned, its fence
  pending,          \* the request the caller re-issues after Exhausted
  ppc               \* PPC context of the adde tests: program, pc, registers, CA

vars == <<transient_cache, allocations, write_head, signaled, capacity,
          alignment, call, probe, invalidated, copy,
                 arena, lease, pending, ppc>>

-----------------------------------------------------------------------------
(* Program constants *)

\* VK_WHOLE_SIZE (~0ULL), the "no offset" sentinel; only compared for equality.
VK_WHOLE_SIZE == -1

\* CircularBuffer alignment passed by the constructor: 4096 bytes.
Alignment == 1024

\* kConstantRegisterUniformRange = 512*4*4 + 8*4 + 32*4 bytes, in words.
kConstantRegisterUniformRange == 2088

\* 2^32 bytes, in words: uint32_t guest address arithmetic wraps here.
UInt32Wrap == 1073741824

(* Bounds of the model *)

\* Arena capacity, in alignment units.
CapacityBlocks == 3
\* Fences handed to the ring allocator when it is driven on its own.
NumFences == 2
\* Guest addresses and lengths (words) given to the range cache on its own.
MaxGuestAddr == 2
MaxGuestLen == 3
\* Element counts given to the copy engine (lanes are 8 resp. 4 elements).
MaxCount16 == 9
MaxCount32 == 5
\* Arena capacity where the arena contents are followed, in alignment units.
DataBlocks == 2
\* Arena capacity of SpecRetry, in alignment units.
RetryBlocks == 2

(* Inputs of the operations *)

\* Fences the caller of BufferCache passes (one per frame in flight).
Fences == {1, 2}
RingFences == 1..NumFences
\* Requests of one, two and three alignment units.
RingLens == {1, Alignment + 1, kConstantRegisterUniformRange}
\* Guest ranges <<address, length>> uploaded as vertex buffers.
VertexRanges == {<<0, 1>>, <<0, 2>>, <<1, 1>>}
IndexLens == {2}
IndexAddr == 0
\* The endian modes UploadVertexBuffer accepts; any other reaches
\* assert_always() (line 454), a violated precondition of the call.
EndianModes == {"k8in32", "k16in32"}
\* With an endian mode that UploadVertexBuffer has no branch for.
AllEndianModes == EndianModes \cup {"k8in16"}
\* The index formats UploadIndexBuffer copies.
IndexFormats == {"kInt16", "kInt32"}
\* With an index format that UploadIndexBuffer has no branch for.
AllIndexFormats == IndexFormats \cup {"unknown"}
\* The guest range uploaded where the arena contents are followed.
DataRanges == {<<0, 1>>}
\* Range cache on its own: low addresses and the last word of the address
\* space, where guest_address + guest_length wraps.
CacheAddrs == (0..MaxGuestAddr) \cup {UInt32Wrap - 1}
CacheLens == 1..MaxGuestLen
CacheOffsets == {0, Alignment}

-----------------------------------------------------------------------------
(* Helpers *)

\* uint32_t addition.
Add32(a, b) == (a + b) % UInt32Wrap

\* A length that is not rounded to the alignment.
RoundUp_None(value, multiple) == value

\* xe::round_up(value, multiple)
RoundUp(value, multiple) == ((value + multiple - 1) \div multiple) * multiple

\* One step of an operation, as logged in call.ev.
Ev(name, a, b) == [e |-> name, a |-> a, b |-> b]

-----------------------------------------------------------------------------
(* CircularBuffer (ring allocator), modelled from the specification.       *)
(* A machine state m is a record [cache, allocs, wh, ev, ret] threaded     *)
(* through the calls an operation makes.                                   *)

\* Start of the oldest unretired allocation; the cursor when none is left.
ReadHead(allocs, wh) == IF allocs = <<>> THEN wh ELSE allocs[1].offset

Grant(m, offset, length, aligned, fence) ==
  [m EXCEPT !.allocs = Append(@, [offset |-> offset,
                                  aligned_length |-> aligned, fence |-> fence]),
            !.wh = offset + aligned,
            !.ret = offset,
            !.ev = Append(@, Ev("Acquire", offset, aligned))]

Exhaust(m, aligned) ==
  [m EXCEPT !.ret = VK_WHOLE_SIZE,
            !.ev = Append(@, Ev("Acquire", VK_WHOLE_SIZE, aligned))]

\* Acquire where the tail is too small: always wrap to the arena start.
CB_Acquire_WrapUnchecked(m, length, fence) ==
  LET aligned == RoundUp(length, alignment)
  IN IF capacity - m.wh >= aligned
       THEN Grant(m, m.wh, length, aligned, fence)
       ELSE Grant(m, 0, length, aligned, fence)

\* Acquire that gives up when the tail is too small, without trying the start.
CB_Acquire_NoWrap(m, length, fence) ==
  LET aligned == RoundUp(length, alignment)
      rh == ReadHead(m.allocs, m.wh)
  IN IF m.allocs = <<>> \/ m.wh > rh
       THEN IF capacity - m.wh >= aligned
              THEN Grant(m, m.wh, length, aligned, fence)
              ELSE Exhaust(m, aligned)
       ELSE IF m.wh < rh /\ rh - m.wh >= aligned
              THEN Grant(m, m.wh, length, aligned, fence)
              ELSE Exhaust(m, aligned)

\* CircularBuffer::Acquire(length, fence)
CB_Acquire(m, length, fence) ==
  LET aligned == RoundUp(length, alignment)
      rh == ReadHead(m.allocs, m.wh)
  IN IF m.allocs = <<>>
       THEN \* nothing outstanding: the whole arena is free
            IF capacity - m.wh >= aligned
              THEN Grant(m, m.wh, length, aligned, fence)
            ELSE IF capacity >= aligned
              THEN Grant(m, 0, length, aligned, fence)
            ELSE Exhaust(m, aligned)
     ELSE IF m.wh > rh
       THEN \* cursor ahead of the oldest allocation: tail, then start
            IF capacity - m.wh >= aligned
              THEN Grant(m, m.wh, length, aligned, fence)
            ELSE IF rh >= aligned
              THEN Grant(m, 0, length, aligned, fence)
            ELSE Exhaust(m, aligned)
     ELSE IF m.wh < rh
       THEN \* cursor wrapped: free span is [cursor, oldest start)
            IF rh - m.wh >= aligned
              THEN Grant(m, m.wh, length, aligned, fence)
              ELSE Exhaust(m, aligned)
     ELSE Exhaust(m, aligned)

\* Number of allocations at the front of the list whose fence has signaled.
RECURSIVE SignaledPrefix(_)
SignaledPrefix(allocs) ==
  IF allocs = <<>> \/ allocs[1].fence \notin signaled
    THEN 0
    ELSE 1 + SignaledPrefix(Tail(allocs))

\* A scavenge that retires every signaled allocation, whatever its place.
CB_Scavenge_AnySignaled(m) ==
  LET Unsignaled(al) == al.fence \notin signaled
      kept == SelectSeq(m.allocs, Unsignaled)
  IN [m EXCEPT !.allocs = kept,
               !.ev = Append(@, Ev("Scavenge", Len(m.allocs) - Len(kept), 0))]

\* CircularBuffer::Scavenge()
CB_Scavenge(m) ==
  LET n == SignaledPrefix(m.allocs)
  IN [m EXCEPT !.allocs = SubSeq(@, n + 1, Len(@)),
               !.ev = Append(@, Ev("Scavenge", n, 0))]

\* CircularBuffer::Flush(offset, length)
CB_Flush(m, offset, length) ==
  [m EXCEPT !.ev = Append(@, Ev("Flush", offset, length))]

-----------------------------------------------------------------------------
(* RangeCache: BufferCache::transient_cache_ *)

\* A lookup that demands strictly more than the requested range.
FindCachedTransientData_Strict(cache, guest_address, guest_length) ==
  LET below == {e \in cache : e.addr <= guest_address}
  IN IF below = {}
       THEN VK_WHOLE_SIZE
       ELSE LET it == CHOOSE e \in below : \A x \in below : x.addr <= e.addr
            IN IF Add32(it.addr, it.len) > Add32(guest_address, guest_length)
                 THEN it.off + (guest_address - it.addr)
                 ELSE VK_WHOLE_SIZE

\* BufferCache::FindCachedTransientData
FindCachedTransientData(cache, guest_address, guest_length) ==
  IF cache = {}
    THEN VK_WHOLE_SIZE
    ELSE LET below == {e \in cache : e.addr <= guest_address}
         IN IF below = {}
              THEN VK_WHOLE_SIZE
              ELSE LET it == CHOOSE e \in below :
                               \A x \in below : x.addr <= e.addr
                   IN IF Add32(it.addr, it.len)
                           >= Add32(guest_address, guest_length)
                        THEN it.off + (guest_address - it.addr)
                        ELSE VK_WHOLE_SIZE

\* The erase loop of CacheTransientData: it = upper_bound(guest_address).
RECURSIVE EraseContained(_, _, _)
EraseContained(cache, guest_address, guest_length) ==
  LET after == {e \in cache : e.addr > guest_address}
  IN IF after = {}
       THEN cache
       ELSE LET it == CHOOSE e \in after : \A x \in after : e.addr <= x.addr
            IN IF Add32(guest_address, guest_length) >= Add32(it.addr, it.len)
                 THEN EraseContained(cache \ {it}, guest_address, guest_length)
                 ELSE cache

\* An insert that records nothing.
CacheTransientData_Drop(cache, guest_address, guest_length, offset) == cache

\* An insert that erases nothing.
CacheTransientData_NoErase(cache, guest_address, guest_length, offset) ==
  {e \in cache : e.addr # guest_address}
    \cup {[addr |-> guest_address, len |-> guest_length, off |-> offset]}

\* BufferCache::CacheTransientData
CacheTransientData(cache, guest_address, guest_length, offset) ==
  EraseContained(
    {e \in cache : e.addr # guest_address}
      \cup {[addr |-> guest_address, len |-> guest_length, off |-> offset]},
    guest_address, guest_length)

-----------------------------------------------------------------------------
(* BufferCache *)

\* BufferCache::TryAllocateTransientData
TryAllocateTransientData(m, length, fence) == CB_Acquire(m, length, fence)

\* An allocation that scavenges after a failure but does not try again.
AllocateTransientData_NoRetry(m, length, fence) ==
  LET m1 == TryAllocateTransientData(m, length, fence)
  IN IF m1.ret # VK_WHOLE_SIZE THEN m1 ELSE CB_Scavenge(m1)

\* An allocation that tries again after a failure without scavenging.
AllocateTransientData_NoScavenge(m, length, fence) ==
  LET m1 == TryAllocateTransientData(m, length, fence)
  IN IF m1.ret # VK_WHOLE_SIZE
       THEN m1
       ELSE TryAllocateTransientData(m1, length, fence)

\* BufferCache::AllocateTransientData
AllocateTransientData(m, length, fence) ==
  LET m1 == TryAllocateTransientData(m, length, fence)
  IN IF m1.ret # VK_WHOLE_SIZE
       THEN m1
       ELSE TryAllocateTransientData(CB_Scavenge(m1), length, fence)

\* A barrier that covers the whole buffer instead of the uploaded range.
Barrier_WholeBuffer(m, dst_access, offset, size) ==
  [m EXCEPT !.ev = Append(@, [e |-> dst_access, a |-> 0, b |-> VK_WHOLE_SIZE,
                              src |-> "HOST_WRITE"])]

\* vkCmdPipelineBarrier with one VkBufferMemoryBarrier
\* {srcAccessMask = VK_ACCESS_HOST_WRITE_BIT, dstAccessMask, offset, size}
Barrier(m, dst_access, offset, size) ==
  [m EXCEPT !.ev = Append(@, [e |-> dst_access, a |-> offset, b |-> size,
                              src |-> "HOST_WRITE"])]

\* A call of the copy engine on the bytes at offset.
Copy(m, routine, offset, count) ==
  [m EXCEPT !.ev = Append(@, Ev(routine, offset, count))]

\* A constants upload that does not test the allocation's result.
UploadConstantRegisters_NoCheck(m, fence) ==
  LET m1 == AllocateTransientData(m, kConstantRegisterUniformRange, fence)
      m2 == Copy(m1, "memcpy", m1.ret, kConstantRegisterUniformRange)
      m3 == CB_Flush(m2, m1.ret, kConstantRegisterUniformRange)
  IN Barrier(m3, "UNIFORM_READ|SHADER_READ", m1.ret,
             kConstantRegisterUniformRange)

\* BufferCache::UploadConstantRegisters
UploadConstantRegisters(m, fence) ==
  LET m1 == AllocateTransientData(m, kConstantRegisterUniformRange, fence)
      offset == m1.ret
  IN IF offset = VK_WHOLE_SIZE
       THEN m1
       ELSE LET m2 == Copy(m1, "memcpy", offset, kConstantRegisterUniformRange)
                m3 == CB_Flush(m2, offset, kConstantRegisterUniformRange)
                m4 == Barrier(m3, "UNIFORM_READ|SHADER_READ", offset,
                              kConstantRegisterUniformRange)
            IN [m4 EXCEPT !.ret = offset]

\* An index upload that serves a guest range found in the range cache.
UploadIndexBuffer_Lookup(m, source_addr, source_length, format, reset_enabled, fence) ==
  LET found == FindCachedTransientData(m.cache, source_addr, source_length)
  IN IF found # VK_WHOLE_SIZE
       THEN [m EXCEPT !.ret = found]
       ELSE LET m1 == AllocateTransientData(m, source_length, fence)
            IN IF m1.ret = VK_WHOLE_SIZE
                 THEN m1
                 ELSE CB_Flush(Copy(m1, "copy_and_swap_16_unaligned", m1.ret,
                                    source_length),
                               m1.ret, source_length)

\* BufferCache::UploadIndexBuffer
UploadIndexBuffer(m, source_addr, source_length, format, reset_enabled, fence) ==
  LET m1 == AllocateTransientData(m, source_length, fence)
      offset == m1.ret
  IN IF offset = VK_WHOLE_SIZE
       THEN m1
       ELSE LET routine ==
                  IF reset_enabled
                    THEN IF format = "kInt16"
                           THEN "copy_cmp_swap_16_unaligned"
                         ELSE IF format = "kInt32"
                           THEN "copy_cmp_swap_32_unaligned"
                         ELSE "none"
                    ELSE IF format = "kInt16"
                           THEN "copy_and_swap_16_unaligned"
                         ELSE IF format = "kInt32"
                           THEN "copy_and_swap_32_unaligned"
                         ELSE "none"
                \* no branch of the if/else-if chain matches another format
                m2 == IF routine = "none"
                        THEN m1
                        ELSE Copy(m1, routine, offset, source_length)
                m3 == CB_Flush(m2, offset, source_length)
                m4 == Barrier(m3, "INDEX_READ", offset, source_length)
            IN [m4 EXCEPT !.ret = offset]

\* BufferCache::UploadVertexBuffer
UploadVertexBuffer(m, source_addr, source_length, endian, fence) ==
  LET found == FindCachedTransientData(m.cache, source_addr, source_length)
      m0 == [m EXCEPT !.ev = Append(@, Ev("Find", found, 0))]
  IN IF found # VK_WHOLE_SIZE
       THEN [m0 EXCEPT !.ret = found]
       ELSE LET upload_base == source_addr
                upload_size == source_length
                source_offset == source_addr - upload_base
                m1 == AllocateTransientData(m0, upload_size, fence)
                offset == m1.ret
            IN IF offset = VK_WHOLE_SIZE
                 THEN m1
                 ELSE LET routine ==
                            IF endian = "k8in32"
                              THEN "copy_and_swap_32_unaligned"
                            ELSE IF endian = "k16in32"
                              THEN "copy_and_swap_16_in_32_unaligned"
                            ELSE "assert_always"
                          \* assert_always() copies nothing; a build with
                          \* assertions stops there (see the callers)
                          m2 == Copy(m1, routine, offset, source_length)
                          m3 == CB_Flush(m2, offset, upload_size)
                          m4 == Barrier(m3, "VERTEX_ATTRIBUTE_READ", offset,
                                        upload_size)
                          m5 == [m4 EXCEPT
                                   !.cache = CacheTransientData(
                                               @, upload_base, upload_size,
                                               offset),
                                   !.ev = Append(@, Ev("Insert", upload_base,
                                                       upload_size))]
                      IN [m5 EXCEPT !.ret = offset + source_offset]

\* An invalidation that leaves the cache as it is.
InvalidateCache_Keep(m) == m

\* BufferCache::InvalidateCache
InvalidateCache(m) == [m EXCEPT !.cache = {}]

\* A cache clear that also retires the signaled allocations.
ClearCache_Scavenging(m) == CB_Scavenge([m EXCEPT !.cache = {}])

\* BufferCache::ClearCache
ClearCache(m) == [m EXCEPT !.cache = {}]

\* BufferCache::Scavenge
Scavenge(m) == CB_Scavenge([m EXCEPT !.cache = {}])


-----------------------------------------------------------------------------
(* Copy engine: copy_cmp_swap_{16,32}_unaligned.  Memory is a sequence of  *)
(* bytes; an element is 2 resp. 4 consecutive bytes in host (little        *)
(* endian) order, and cmp_value is given by its bytes in that order.       *)

RECURSIVE BitOr(_, _, _)
\* Bitwise or of two n-bit numbers.
BitOr(a, b, n) ==
  IF n = 0
    THEN 0
    ELSE (IF a % 2 = 1 \/ b % 2 = 1 THEN 1 ELSE 0)
         + 2 * BitOr(a \div 2, b \div 2, n - 1)

\* The 16 bytes at byte offset off (0-based): _mm_loadu_si128
mm_loadu_si128(mem, off) == SubSeq(mem, off + 1, off + 16)

\* _mm_shuffle_epi8: byte j of the result is byte mask[j] of the input.
mm_shuffle_epi8(input, mask) == [j \in 1..16 |-> input[mask[j] + 1]]

\* _mm_set1_epi16 / _mm_set1_epi32: the value's bytes in every lane.
mm_set1(value) == [j \in 1..16 |-> value[((j - 1) % Len(value)) + 1]]

\* _mm_cmpeq_epi16 / _mm_cmpeq_epi32 with lanes of w bytes: all-ones where
\* the lanes are equal, zero elsewhere.
mm_cmpeq(a, b, w) ==
  [j \in 1..16 |->
     LET first == ((j - 1) \div w) * w + 1
     IN IF \A k \in first..(first + w - 1) : a[k] = b[k] THEN 255 ELSE 0]

\* _mm_or_si128
mm_or_si128(a, b) == [j \in 1..16 |-> BitOr(a[j], b[j], 8)]

\* shufmask of copy_cmp_swap_16_unaligned, lowest byte first.
ShufMask16 == <<1, 0, 3, 2, 5, 4, 7, 6, 9, 8, 11, 10, 13, 12, 15, 14>>

\* shufmask of copy_cmp_swap_32_unaligned, lowest byte first.
ShufMask32 == <<3, 2, 1, 0, 7, 6, 5, 4, 11, 10, 9, 8, 15, 14, 13, 12>>

\* Element i (0-based) of w bytes each.
Element(mem, i, w) == SubSeq(mem, i * w + 1, i * w + w)

\* xe::byte_swap of one element: its bytes reversed.
byte_swap(value) == [j \in 1..Len(value) |-> value[Len(value) + 1 - j]]

AllOnes(w) == [j \in 1..w |-> 255]

RECURSIVE ResidualLoop(_, _, _, _, _)
\* for (; i < count; ++i) dest[i] = byte_swap(src[i]);
ResidualLoop(dest, src, i, count, w) ==
  IF i < count
    THEN ResidualLoop(dest \o byte_swap(Element(src, i, w)), src, i + 1,
                      count, w)
    ELSE dest

RECURSIVE VectorLoop(_, _, _, _, _, _, _)
\* for (i = 0; i + lanes <= count; i += lanes) { load, shuffle, cmpeq, or,
\* store }, followed by the residual loop; lanes = 16 / w.
VectorLoop(dest, src, shufmask, cmp_value, i, count, w) ==
  IF i + (16 \div w) <= count
    THEN LET input == mm_loadu_si128(src, i * w)
             output == mm_shuffle_epi8(input, shufmask)
             mask == mm_cmpeq(output, mm_set1(cmp_value), w)
         IN VectorLoop(dest \o mm_or_si128(output, mask), src, shufmask,
                       cmp_value, i + (16 \div w), count, w)
    ELSE ResidualLoop(dest, src, i, count, w)

\* copy_cmp_swap_16_unaligned (XE_ARCH_AMD64)
copy_cmp_swap_16_unaligned(src, cmp_value, count) ==
  VectorLoop(<<>>, src, ShufMask16, cmp_value, 0, count, 2)

\* copy_cmp_swap_32_unaligned (XE_ARCH_AMD64)
copy_cmp_swap_32_unaligned(src, cmp_value, count) ==
  VectorLoop(<<>>, src, ShufMask32, cmp_value, 0, count, 4)

RECURSIVE ScalarLoop(_, _, _, _, _, _)
\* for (i = 0; i < count; ++i) { value = byte_swap(src[i]);
\*   dest[i] = value == cmp_value ? all-ones : value; }
ScalarLoop(dest, src, cmp_value, i, count, w) ==
  IF i < count
    THEN LET value == byte_swap(Element(src, i, w))
         IN ScalarLoop(
              dest \o (IF value = cmp_value THEN AllOnes(w) ELSE value),
              src, cmp_value, i + 1, count, w)
    ELSE dest

\* The 16-bit compare-and-swap copy of the build without XE_ARCH_AMD64.
copy_and_swap_16_unaligned(src, cmp_value, count) ==
  ScalarLoop(<<>>, src, cmp_value, 0, count, 2)

\* The 32-bit compare-and-swap copy of the build without XE_ARCH_AMD64.
copy_and_swap_32_unaligned(src, cmp_value, count) ==
  ScalarLoop(<<>>, src, cmp_value, 0, count, 4)

-----------------------------------------------------------------------------
(* The state machine *)

\* The machine state at the start of an operation.
Machine ==
  [cache |-> transient_cache, allocs |-> allocations, wh |-> write_head,
   ev |-> <<>>, ret |-> VK_WHOLE_SIZE]

NoRange == [addr |-> 0, len |-> 0]
NotServed == [addr |-> 0, len |-> 0, off |-> VK_WHOLE_SIZE, superseded |-> FALSE]
\* No returned range is followed.
NoLease == [off |-> VK_WHOLE_SIZE, len |-> 0, fence |-> 0]

\* No PPC program is loaded.
NoContext == [prog |-> "none", pc |-> 0, gpr |-> <<>>, ca |-> 0, in |-> <<>>]

\* The caller has no request to re-issue.
NoRequest == [len |-> 0, fence |-> 0, exhausted |-> FALSE]

\* The record of a call: its arguments, its result and the steps it took.
Call(op, range, m, prior, fresh) ==
  [op |-> op, addr |-> range.addr, len |-> range.len,
   ret |-> m.ret, ev |-> m.ev, prior |-> prior, fresh |-> fresh,
   sel |-> "none"]

\* No call in progress: the caller is between two calls.
Idle ==
  [op |-> "idle", addr |-> 0, len |-> 0, ret |-> VK_WHOLE_SIZE, ev |-> <<>>,
   prior |-> NotServed, fresh |-> FALSE, sel |-> "none"]

\* The copy engine before any call.
NoCopy ==
  [pc |-> "none", w |-> 2, src |-> <<>>, cmp_value |-> <<>>, count |-> 0,
   dest |-> <<>>, ref |-> <<>>]

\* The machine state an operation ends in becomes the program state.
Commit(m) ==
  /\ transient_cache' = m.cache
  /\ allocations' = m.allocs
  /\ write_head' = m.wh

\* BufferCache::BufferCache and Initialize: empty cache, empty ring.
Init ==
  /\ transient_cache = {}
  /\ allocations = <<>>
  /\ write_head = 0
  /\ signaled = {}
  /\ alignment = Alignment
  /\ capacity = CapacityBlocks * Alignment
  /\ call = Idle
  /\ probe = NotServed
  /\ invalidated = FALSE
  /\ arena = {}
  /\ lease = NoLease
  /\ pending = NoRequest
  /\ ppc = NoContext
  /\ copy = NoCopy

DoUploadConstantRegisters ==
  /\ call = Idle
  /\ \E f \in Fences :
       LET m == UploadConstantRegisters(Machine, f)
       IN /\ Commit(m)
          /\ call' = Call("UploadConstantRegisters", NoRange, m, NotServed,
                          FALSE)
  /\ UNCHANGED <<signaled, capacity, alignment, probe, invalidated, copy,
                 arena, lease, pending, ppc>>

DoUploadIndexBuffer ==
  /\ call = Idle
  /\ \E l \in IndexLens, fmt \in IndexFormats, reset \in BOOLEAN,
        f \in Fences :
       LET m == UploadIndexBuffer(Machine, IndexAddr, l, fmt, reset, f)
       IN /\ Commit(m)
          /\ call' = Call("UploadIndexBuffer",
                          [addr |-> IndexAddr, len |-> l], m, NotServed,
                          FALSE)
  /\ UNCHANGED <<signaled, capacity, alignment, probe, invalidated, copy,
                 arena, lease, pending, ppc>>

\* The probed call is superseded by a miss that uploads a range containing
\* the probed range.
Supersede(p, a, l) ==
  IF p.off # VK_WHOLE_SIZE /\ a <= p.addr /\ p.addr + p.len <= a + l
    THEN [p EXCEPT !.superseded = TRUE]
    ELSE p

\* The caller's view of UploadVertexBuffer; track picks the call the
\* history variable probe follows.
DoUploadVertexBuffer ==
  /\ call = Idle
  /\ \E r \in VertexRanges, endian \in EndianModes, f \in Fences,
        track \in BOOLEAN :
       LET a == r[1]
           l == r[2]
           m == UploadVertexBuffer(Machine, a, l, endian, f)
           miss == Len(m.ev) > 1
           ok == m.ret # VK_WHOLE_SIZE
       IN /\ Commit(m)
          /\ call' = Call("UploadVertexBuffer", [addr |-> a, len |-> l], m,
                          IF probe.addr = a /\ probe.len = l
                            THEN probe ELSE NotServed,
                          invalidated)
          /\ probe' = IF ok /\ track
                        THEN [addr |-> a, len |-> l, off |-> m.ret,
                              superseded |-> FALSE]
                      ELSE IF ok /\ miss THEN Supersede(probe, a, l)
                      ELSE probe
  /\ invalidated' = FALSE
  /\ UNCHANGED <<signaled, capacity, alignment, copy, arena, lease, pending,
                 ppc>>

DoInvalidateCache ==
  /\ call = Idle
  /\ Commit(InvalidateCache(Machine))
  /\ call' = Call("InvalidateCache", NoRange, InvalidateCache(Machine),
                  NotServed, FALSE)
  /\ probe' = NotServed
  /\ invalidated' = TRUE
  /\ UNCHANGED <<signaled, capacity, alignment, copy, arena, lease, pending,
                 ppc>>

DoClearCache ==
  /\ call = Idle
  /\ Commit(ClearCache(Machine))
  /\ call' = Call("ClearCache", NoRange, ClearCache(Machine), NotServed,
                  FALSE)
  /\ probe' = NotServed
  /\ invalidated' = TRUE
  /\ UNCHANGED <<signaled, capacity, alignment, copy, arena, lease, pending,
                 ppc>>

DoScavenge ==
  /\ call = Idle
  /\ Commit(Scavenge(Machine))
  /\ call' = Call("Scavenge", NoRange, Scavenge(Machine), NotServed, FALSE)
  /\ probe' = NotServed
  /\ invalidated' = TRUE
  /\ UNCHANGED <<signaled, capacity, alignment, copy, arena, lease, pending,
                 ppc>>

\* The device completes the work a fence guards.
SignalFence ==
  /\ call = Idle
  /\ \E f \in Fences \ signaled : signaled' = signaled \cup {f}
  /\ UNCHANGED <<transient_cache, allocations, write_head, capacity,
                 alignment, call, probe, invalidated, copy,
                 arena, lease, pending, ppc>>

\* The call returns to the caller, which takes its result.
Return ==
  /\ call # Idle
  /\ call' = Idle
  /\ UNCHANGED <<transient_cache, allocations, write_head, signaled, capacity,
                 alignment, probe, invalidated, copy,
                 arena, lease, pending, ppc>>

Next ==
  \/ DoUploadConstantRegisters
  \/ DoUploadIndexBuffer
  \/ DoUploadVertexBuffer
  \/ DoInvalidateCache
  \/ DoClearCache
  \/ DoScavenge
  \/ SignalFence
  \/ Return

\* BufferCache driven through its public operations.
Spec == Init /\ [][Next]_vars

-----------------------------------------------------------------------------
(* The ring allocator driven through BufferCache's allocation helpers *)

DoTryAllocateTransientData ==
  /\ call = Idle
  /\ \E l \in RingLens, f \in RingFences :
       LET m == TryAllocateTransientData(Machine, l, f)
       IN /\ Commit(m)
          /\ call' = Call("TryAllocateTransientData",
                          [addr |-> 0, len |-> l], m, NotServed, FALSE)
  /\ UNCHANGED <<signaled, capacity, alignment, probe, invalidated, copy,
                 arena, lease, pending, ppc>>

DoAllocateTransientData ==
  /\ call = Idle
  /\ \E l \in RingLens, f \in RingFences :
       LET m == AllocateTransientData(Machine, l, f)
       IN /\ Commit(m)
          /\ call' = Call("AllocateTransientData",
                          [addr |-> 0, len |-> l], m, NotServed, FALSE)
  /\ UNCHANGED <<signaled, capacity, alignment, probe, invalidated, copy,
                 arena, lease, pending, ppc>>

\* transient_buffer_->Scavenge()
DoRingScavenge ==
  /\ call = Idle
  /\ Commit(CB_Scavenge(Machine))
  /\ call' = Call("CircularBuffer::Scavenge", NoRange, CB_Scavenge(Machine),
                  NotServed, FALSE)
  /\ UNCHANGED <<signaled, capacity, alignment, probe, invalidated, copy,
                 arena, lease, pending, ppc>>

RingSignalFence ==
  /\ call = Idle
  /\ \E f \in RingFences \ signaled : signaled' = signaled \cup {f}
  /\ UNCHANGED <<transient_cache, allocations, write_head, capacity,
                 alignment, call, probe, invalidated, copy,
                 arena, lease, pending, ppc>>

NextRing ==
  \/ DoTryAllocateTransientData
  \/ DoAllocateTransientData
  \/ DoRingScavenge
  \/ RingSignalFence
  \/ Return

SpecRing == Init /\ [][NextRing]_vars

-----------------------------------------------------------------------------
(* The range cache driven through Find, Insert and Clear *)

DoFindCachedTransientData ==
  /\ call = Idle
  /\ \E a \in CacheAddrs, l \in CacheLens :
       call' = [Idle EXCEPT
                  !.op = "FindCachedTransientData", !.addr = a, !.len = l,
                  !.ret = FindCachedTransientData(transient_cache, a, l)]
  /\ UNCHANGED <<transient_cache, allocations, write_head, signaled, capacity,
                 alignment, probe, invalidated, copy,
                 arena, lease, pending, ppc>>

DoCacheTransientData ==
  /\ call = Idle
  /\ \E a \in CacheAddrs, l \in CacheLens, o \in CacheOffsets :
       /\ transient_cache' = CacheTransientData(transient_cache, a, l, o)
       /\ call' = [Idle EXCEPT
                     !.op = "CacheTransientData", !.addr = a, !.len = l,
                     !.ret = o]
  /\ UNCHANGED <<allocations, write_head, signaled, capacity, alignment,
                 probe, invalidated, copy,
                 arena, lease, pending, ppc>>

DoClear ==
  /\ call = Idle
  /\ transient_cache' = {}
  /\ call' = [Idle EXCEPT !.op = "clear"]
  /\ UNCHANGED <<allocations, write_head, signaled, capacity, alignment,
                 probe, invalidated, copy,
                 arena, lease, pending, ppc>>

NextCache ==
  \/ DoFindCachedTransientData
  \/ DoCacheTransientData
  \/ DoClear
  \/ Return

SpecCache == Init /\ [][NextCache]_vars

-----------------------------------------------------------------------------
(* The ring allocator in the arena of the specification's scenario:        *)
(* capacity 4096 bytes, alignment 256 bytes, requests of 300 and 4000      *)
(* bytes (all in 4-byte words here).                                       *)

ScenarioCapacity == 1024
ScenarioAlignment == 64
ScenarioLens == {75, 1000}
ScenarioFences == {1, 2}

InitScenario ==
  /\ transient_cache = {}
  /\ allocations = <<>>
  /\ write_head = 0
  /\ signaled = {}
  /\ alignment = ScenarioAlignment
  /\ capacity = ScenarioCapacity
  /\ call = Idle
  /\ probe = NotServed
  /\ invalidated = FALSE
  /\ arena = {}
  /\ lease = NoLease
  /\ pending = NoRequest
  /\ ppc = NoContext
  /\ copy = NoCopy

ScenarioTryAllocate ==
  /\ call = Idle
  /\ \E l \in ScenarioLens, f \in ScenarioFences :
       LET m == TryAllocateTransientData(Machine, l, f)
       IN /\ Commit(m)
          /\ call' = Call("TryAllocateTransientData",
                          [addr |-> 0, len |-> l], m, NotServed, FALSE)
  /\ UNCHANGED <<signaled, capacity, alignment, probe, invalidated, copy,
                 arena, lease, pending, ppc>>

ScenarioAllocate ==
  /\ call = Idle
  /\ \E l \in ScenarioLens, f \in ScenarioFences :
       LET m == AllocateTransientData(Machine, l, f)
       IN /\ Commit(m)
          /\ call' = Call("AllocateTransientData",
                          [addr |-> 0, len |-> l], m, NotServed, FALSE)
  /\ UNCHANGED <<signaled, capacity, alignment, probe, invalidated, copy,
                 arena, lease, pending, ppc>>

ScenarioScavenge ==
  /\ call = Idle
  /\ Commit(CB_Scavenge(Machine))
  /\ call' = Call("CircularBuffer::Scavenge", NoRange, CB_Scavenge(Machine),
                  NotServed, FALSE)
  /\ UNCHANGED <<signaled, capacity, alignment, probe, invalidated, copy,
                 arena, lease, pending, ppc>>

ScenarioSignalFence ==
  /\ call = Idle
  /\ \E f \in ScenarioFences \ signaled : signaled' = signaled \cup {f}
  /\ UNCHANGED <<transient_cache, allocations, write_head, capacity,
                 alignment, call, probe, invalidated, copy,
                 arena, lease, pending, ppc>>

NextScenario ==
  \/ ScenarioTryAllocate
  \/ ScenarioAllocate
  \/ ScenarioScavenge
  \/ ScenarioSignalFence
  \/ Return

SpecScenario == InitScenario /\ [][NextScenario]_vars

-----------------------------------------------------------------------------
(* The range cache driven through UploadVertexBuffer, over all guest ranges *)
(* of the bounds. The ring is left out: each miss is granted the arena      *)
(* offset the ring's cursor is given to stand at.                           *)

DrivenAddrs == 0..MaxGuestAddr
DrivenOffsets == {0, Alignment, 2 * Alignment}

DrivenUploadVertexBuffer ==
  /\ call = Idle
  /\ \E a \in DrivenAddrs, l \in CacheLens, o \in DrivenOffsets,
        endian \in EndianModes :
       LET m == UploadVertexBuffer([Machine EXCEPT !.wh = o], a, l, endian, 1)
       IN /\ transient_cache' = m.cache
          /\ call' = Call("UploadVertexBuffer", [addr |-> a, len |-> l], m,
                          NotServed, FALSE)
  /\ UNCHANGED <<allocations, write_head, signaled, capacity, alignment,
                 probe, invalidated, copy,
                 arena, lease, pending, ppc>>

DrivenInvalidateCache ==
  /\ call = Idle
  /\ transient_cache' = InvalidateCache(Machine).cache
  /\ call' = Call("InvalidateCache", NoRange, InvalidateCache(Machine),
                  NotServed, FALSE)
  /\ UNCHANGED <<allocations, write_head, signaled, capacity, alignment,
                 probe, invalidated, copy,
                 arena, lease, pending, ppc>>

NextDriven ==
  \/ DrivenUploadVertexBuffer
  \/ DrivenInvalidateCache
  \/ Return

SpecDriven == Init /\ [][NextDriven]_vars

-----------------------------------------------------------------------------
(* BufferCache with the arena contents followed, called with every         *)
(* selector value, in a build with or without assertions.                  *)

\* The copy routines of the uploads.
ArenaWriters ==
  {"copy_and_swap_32_unaligned", "copy_and_swap_16_in_32_unaligned",
   "copy_cmp_swap_16_unaligned", "copy_cmp_swap_32_unaligned",
   "copy_and_swap_16_unaligned"}

\* The arena after the copies logged in ev. The contents followed are the
\* vertex data: a copy of guest range [addr, addr + count) to offset by
\* UploadVertexBuffer is recorded, and every copy removes what it overwrites.
Written(contents, ev, addr, vertex) ==
  LET copies == {i \in 1..Len(ev) : ev[i].e \in ArenaWriters}
  IN IF copies = {}
       THEN contents
       ELSE LET e == ev[CHOOSE i \in copies : TRUE]
                kept == {w \in contents :
                           w.off + w.len <= e.a \/ e.a + e.b <= w.off}
            IN IF vertex
                 THEN kept \cup {[off |-> e.a, len |-> e.b, addr |-> addr,
                                  routine |-> e.e]}
                 ELSE kept

\* The call reached assert_always().
Asserted(m) == \E i \in 1..Len(m.ev) : m.ev[i].e = "assert_always"

\* The process stopped in a failed assertion.
Aborted(op, selector) == [Idle EXCEPT !.op = "abort in " \o op, !.sel = selector]

DataUploadVertexBuffer ==
  /\ call = Idle
  /\ \E r \in DataRanges, endian \in AllEndianModes, f \in Fences,
        follow \in BOOLEAN, assertions \in BOOLEAN :
       LET a == r[1]
           l == r[2]
           m == UploadVertexBuffer(Machine, a, l, endian, f)
       IN IF assertions /\ Asserted(m)
            THEN /\ call' = Aborted("UploadVertexBuffer", endian)
                 /\ UNCHANGED <<transient_cache, allocations, write_head,
                                arena, lease, pending, ppc>>
            ELSE /\ Commit(m)
                 /\ call' = [Call("UploadVertexBuffer",
                                  [addr |-> a, len |-> l], m, NotServed,
                                  FALSE)
                               EXCEPT !.sel = endian]
                 /\ arena' = Written(arena, m.ev, a, TRUE)
                 /\ lease' = IF follow /\ m.ret # VK_WHOLE_SIZE
                                  /\ lease = NoLease /\ f \notin signaled
                               THEN [off |-> m.ret, len |-> l, fence |-> f]
                               ELSE lease
  /\ UNCHANGED <<signaled, capacity, alignment, probe, invalidated, copy,
                 pending, ppc>>

DataUploadIndexBuffer ==
  /\ call = Idle
  /\ \E l \in IndexLens, fmt \in AllIndexFormats, reset \in BOOLEAN,
        f \in Fences :
       LET m == UploadIndexBuffer(Machine, IndexAddr, l, fmt, reset, f)
       IN /\ Commit(m)
          /\ call' = [Call("UploadIndexBuffer",
                           [addr |-> IndexAddr, len |-> l], m, NotServed,
                           FALSE)
                        EXCEPT !.sel = fmt]
          /\ arena' = Written(arena, m.ev, IndexAddr, FALSE)
  /\ UNCHANGED <<signaled, capacity, alignment, probe, invalidated, copy,
                 lease, pending, ppc>>

DataScavenge ==
  /\ call = Idle
  /\ Commit(Scavenge(Machine))
  /\ call' = Call("Scavenge", NoRange, Scavenge(Machine), NotServed, FALSE)
  /\ UNCHANGED <<signaled, capacity, alignment, probe, invalidated, copy,
                 arena, lease, pending, ppc>>

\* The device completes the work a fence guards; a followed range returned
\* under that fence is no longer in use.
DataSignalFence ==
  /\ call = Idle
  /\ \E f \in Fences \ signaled :
       /\ signaled' = signaled \cup {f}
       /\ lease' = IF lease.fence = f THEN NoLease ELSE lease
  /\ UNCHANGED <<transient_cache, allocations, write_head, capacity,
                 alignment, call, probe, invalidated, copy, arena, pending,
                 ppc>>

\* The call returns to the caller; a stopped process does not go on.
DataReturn ==
  /\ call # Idle
  /\ call.op \notin {"abort in UploadVertexBuffer"}
  /\ call' = Idle
  /\ UNCHANGED <<transient_cache, allocations, write_head, signaled, capacity,
                 alignment, probe, invalidated, copy, arena, lease, pending,
                 ppc>>

NextData ==
  \/ DataUploadVertexBuffer
  \/ DataUploadIndexBuffer
  \/ DataScavenge
  \/ DataSignalFence
  \/ DataReturn

\* BufferCache::BufferCache over a small arena.
InitData ==
  /\ transient_cache = {}
  /\ allocations = <<>>
  /\ write_head = 0
  /\ signaled = {}
  /\ alignment = Alignment
  /\ capacity = DataBlocks * Alignment
  /\ call = Idle
  /\ probe = NotServed
  /\ invalidated = FALSE
  /\ arena = {}
  /\ lease = NoLease
  /\ pending = NoRequest
  /\ ppc = NoContext
  /\ copy = NoCopy

SpecData == InitData /\ [][NextData]_vars

-----------------------------------------------------------------------------
(* A caller that re-issues an upload after every Exhausted result, while   *)
(* the device signals the fences of the work it completes.                 *)

\* Lengths of the index uploads the caller issues: one, two and three
\* alignment units, the last more than the arena holds.
RetryLens == {1, Alignment + 1, 2 * Alignment + 1}

\* The arena of this caller: RetryBlocks alignment units.
InitRetry ==
  /\ transient_cache = {}
  /\ allocations = <<>>
  /\ write_head = 0
  /\ signaled = {}
  /\ alignment = Alignment
  /\ capacity = RetryBlocks * Alignment
  /\ call = Idle
  /\ probe = NotServed
  /\ invalidated = FALSE
  /\ arena = {}
  /\ lease = NoLease
  /\ pending = NoRequest
  /\ ppc = NoContext
  /\ copy = NoCopy

\* The call of the upload and the caller's reaction to its result: the
\* request is pending after Exhausted until a re-issue returns a valid offset.
RetryCall(len, fence, format, reset) ==
  LET m == UploadIndexBuffer(Machine, IndexAddr, len, format, reset, fence)
  IN /\ Commit(m)
     /\ call' = Call("UploadIndexBuffer",
                     [addr |-> IndexAddr, len |-> len], m, NotServed, FALSE)
     /\ pending' = IF m.ret = VK_WHOLE_SIZE
                     THEN [len |-> len, fence |-> fence, exhausted |-> TRUE]
                   ELSE IF pending.exhausted
                     THEN [pending EXCEPT !.exhausted = FALSE]
                   ELSE NoRequest

\* The caller issues a new upload.
RetryIssue ==
  /\ call = Idle
  /\ ~pending.exhausted
  /\ \E len \in RetryLens, f \in Fences, reset \in BOOLEAN :
       RetryCall(len, f, "kInt32", reset)
  /\ UNCHANGED <<signaled, capacity, alignment, probe, invalidated, copy,
                 arena, lease, ppc>>

\* The caller issues the Exhausted upload again.
RetryReissue ==
  /\ call = Idle
  /\ pending.exhausted
  /\ \E reset \in BOOLEAN :
       RetryCall(pending.len, pending.fence, "kInt32", reset)
  /\ UNCHANGED <<signaled, capacity, alignment, probe, invalidated, copy,
                 arena, lease, ppc>>

\* The device completes the work fence f guards, at any time.
RetrySignalFence(f) ==
  /\ f \notin signaled
  /\ signaled' = signaled \cup {f}
  /\ UNCHANGED <<transient_cache, allocations, write_head, capacity,
                 alignment, call, probe, invalidated, copy, arena, lease,
                 pending, ppc>>

\* Fence f is attached to an outstanding allocation.
Attached(f) == \E i \in 1..Len(allocations) : allocations[i].fence = f

NextRetry ==
  \/ RetryIssue
  \/ RetryReissue
  \/ \E f \in Fences : RetrySignalFence(f)
  \/ Return

\* Every fence attached to a granted allocation eventually signals, every
\* call returns, and the caller re-issues what was Exhausted.
SpecRetry ==
  /\ InitRetry
  /\ [][NextRetry]_vars
  /\ \A f \in Fences : WF_vars(Attached(f) /\ RetrySignalFence(f))
  /\ WF_vars(Return)
  /\ WF_vars(RetryReissue)



SrcElements16 == {<<18, 52>>, <<0, 1>>}
CmpValues16 == {<<52, 18>>, <<18, 52>>, <<255, 255>>}
SrcElements32 == {<<1, 2, 3, 4>>, <<0, 0, 0, 1>>}
CmpValues32 == {<<4, 3, 2, 1>>, <<1, 2, 3, 4>>, <<255, 255, 255, 255>>}

RECURSIVE Flatten(_)
\* The bytes of a sequence of elements.
Flatten(elements) ==
  IF elements = <<>> THEN <<>> ELSE Head(elements) \o Flatten(Tail(elements))

CopyInputs(w, elements, cmps, max) ==
  UNION {{[pc |-> "start", w |-> w, src |-> Flatten(s), cmp_value |-> c,
           count |-> n, dest |-> <<>>, ref |-> <<>>]
           : s \in [1..n -> elements], c \in cmps} : n \in 0..max}

InitCopy ==
  /\ transient_cache = {}
  /\ allocations = <<>>
  /\ write_head = 0
  /\ signaled = {}
  /\ alignment = Alignment
  /\ capacity = CapacityBlocks * Alignment
  /\ call = Idle
  /\ probe = NotServed
  /\ invalidated = FALSE
  /\ arena = {}
  /\ lease = NoLease
  /\ pending = NoRequest
  /\ ppc = NoContext
  /\ copy \in CopyInputs(2, SrcElements16, CmpValues16, MaxCount16)
              \cup CopyInputs(4, SrcElements32, CmpValues32, MaxCount32)

\* The XE_ARCH_AMD64 build's routine writes dest.
RunVector ==
  /\ copy.pc = "start"
  /\ copy' = [copy EXCEPT
                !.pc = "vector",
                !.dest = IF copy.w = 2
                           THEN copy_cmp_swap_16_unaligned(
                                  copy.src, copy.cmp_value, copy.count)
                           ELSE copy_cmp_swap_32_unaligned(
                                  copy.src, copy.cmp_value, copy.count)]
  /\ UNCHANGED <<transient_cache, allocations, write_head, signaled, capacity,
                 alignment, call, probe, invalidated, arena, lease, pending,
                 ppc>>

\* The other build's routine writes ref for the same arguments.
RunScalar ==
  /\ copy.pc = "vector"
  /\ copy' = [copy EXCEPT
                !.pc = "both",
                !.ref = IF copy.w = 2
                          THEN copy_and_swap_16_unaligned(
                                 copy.src, copy.cmp_value, copy.count)
                          ELSE copy_and_swap_32_unaligned(
                                 copy.src, copy.cmp_value, copy.count)]
  /\ UNCHANGED <<transient_cache, allocations, write_head, signaled, capacity,
                 alignment, call, probe, invalidated, arena, lease, pending,
                 ppc>>

NextCopy ==
  \/ RunVector
  \/ RunScalar

SpecCopy == InitCopy /\ [][NextCopy]_vars

-----------------------------------------------------------------------------
(* The PowerPC adde tests.  A 64-bit register is a sequence of four 16-bit  *)
(* limbs, least significant first; XER[CA] is 0 or 1.                       *)

\* Radix of one limb.
LimbBase == 65536

\* The register value of a number below LimbBase.
Word(n) == <<n, 0, 0, 0>>
\* 0xFFFFFFFFFFFFFFFF and 0x7FFFFFFFFFFFFFFF
AllOnes64 == <<65535, 65535, 65535, 65535>>
MaxInt64 == <<65535, 65535, 65535, 32767>>

RECURSIVE AddLimbs(_, _, _)
\* The limbs of a + b + c, followed by the carry out of the top limb.
AddLimbs(a, b, c) ==
  IF a = <<>>
    THEN <<c>>
    ELSE LET s == a[1] + b[1] + c
         IN <<s % LimbBase>> \o AddLimbs(Tail(a), Tail(b), s \div LimbBase)

\* An adde that adds without the carry bit.
adde_NoCarryIn(ra, rb, ca) ==
  LET s == AddLimbs(ra, rb, 0)
  IN [rd |-> SubSeq(s, 1, Len(ra)), ca |-> s[Len(ra) + 1]]

\* adde rD, rA, rB : rD <- rA + rB + CA, CA <- carry out of bit 0
adde(ra, rb, ca) ==
  LET s == AddLimbs(ra, rb, ca)
  IN [rd |-> SubSeq(s, 1, Len(ra)), ca |-> s[Len(ra) + 1]]

\* addic rD, rA, SIMM : rD <- rA + SIMM, CA <- carry out (SIMM >= 0 here)
addic(ra, simm) ==
  LET s == AddLimbs(ra, Word(simm), 0)
  IN [rd |-> SubSeq(s, 1, Len(ra)), ca |-> s[Len(ra) + 1]]

RECURSIVE BitXor(_, _, _)
\* Bitwise exclusive or of two n-bit numbers.
BitXor(a, b, n) ==
  IF n = 0
    THEN 0
    ELSE (IF a % 2 # b % 2 THEN 1 ELSE 0)
         + 2 * BitXor(a \div 2, b \div 2, n - 1)

\* xor rA, rS, rB
xor(rs, rb) ==
  <<BitXor(rs[1], rb[1], 16), BitXor(rs[2], rb[2], 16),
    BitXor(rs[3], rb[3], 16), BitXor(rs[4], rb[4], 16)>>

\* not rA, rS (nor rA, rS, rS)
not(rs) ==
  <<LimbBase - 1 - rs[1], LimbBase - 1 - rs[2], LimbBase - 1 - rs[3],
    LimbBase - 1 - rs[4]>>

\* One instruction: opcode, target register, source register, second source
\* register or immediate.
Instr(op, d, a, b) == [op |-> op, d |-> d, a |-> a, b |-> b]

\* test_adde_1, 3, 5, 7, 9: adde r3, r4, r5 ; adde r6, r0, r0 ; blr
PlainProgram ==
  <<Instr("adde", 3, 4, 5), Instr("adde", 6, 0, 0), Instr("blr", 0, 0, 0)>>

\* test_adde_2, 4, 6, 8, 10: the same after xor, not, addic have set CA
CarryProgram ==
  <<Instr("xor", 3, 3, 3), Instr("not", 3, 3, 3), Instr("addic", 3, 3, 1),
    Instr("adde", 3, 4, 5), Instr("adde", 6, 0, 0), Instr("blr", 0, 0, 0)>>

Program(name) == IF name = "plain" THEN PlainProgram ELSE CarryProgram

\* The registers the tests name.
Registers == {0, 3, 4, 5, 6}

\* The values the tests load into r4 and r5 (REGISTER_IN).
InputValues == {Word(0), Word(1), Word(2), Word(123), MaxInt64, AllOnes64}

\* A test as the file states it: program, REGISTER_IN r4 and r5,
\* REGISTER_OUT r3 and r6 (REGISTER_OUT r4 and r5 repeat the inputs).
Test(prog, r4, r5, r3, r6) ==
  [prog |-> prog, r4 |-> r4, r5 |-> r5, r3 |-> r3, r6 |-> r6]

\* test_adde_1 .. test_adde_10
Tests ==
  {Test("plain", Word(1), Word(2), Word(3), Word(0)),
   Test("carry", Word(1), Word(2), Word(4), Word(0)),
   Test("plain", AllOnes64, Word(0), AllOnes64, Word(0)),
   Test("carry", AllOnes64, Word(0), Word(0), Word(1)),
   Test("plain", AllOnes64, Word(1), Word(0), Word(1)),
   Test("carry", AllOnes64, Word(1), Word(1), Word(1)),
   Test("plain", AllOnes64, Word(123), Word(122), Word(1)),
   Test("carry", AllOnes64, Word(123), Word(123), Word(1)),
   Test("plain", MaxInt64, AllOnes64, <<65534, 65535, 65535, 32767>>, Word(1)),
   Test("carry", MaxInt64, AllOnes64, MaxInt64, Word(1))}

\* The test runner loads r4 and r5, clears the other registers and CA, and
\* starts the program.
InitAdde ==
  /\ transient_cache = {}
  /\ allocations = <<>>
  /\ write_head = 0
  /\ signaled = {}
  /\ alignment = Alignment
  /\ capacity = CapacityBlocks * Alignment
  /\ call = Idle
  /\ probe = NotServed
  /\ invalidated = FALSE
  /\ arena = {}
  /\ lease = NoLease
  /\ pending = NoRequest
  /\ copy = NoCopy
  /\ \E prog \in {"plain", "carry"}, r4 \in InputValues, r5 \in InputValues :
       ppc = [prog |-> prog, pc |-> 1,
              gpr |-> [r \in Registers |->
                         IF r = 4 THEN r4 ELSE IF r = 5 THEN r5 ELSE Word(0)],
              ca |-> 0, in |-> <<r4, r5>>]

\* The program runs and its next instruction is op.
AtInstr(op) ==
  /\ ppc.prog # "none"
  /\ ppc.pc > 0
  /\ Program(ppc.prog)[ppc.pc].op = op

\* The instruction at the program counter.
Fetch == Program(ppc.prog)[ppc.pc]

ExecAdde ==
  /\ AtInstr("adde")
  /\ LET r == adde(ppc.gpr[Fetch.a], ppc.gpr[Fetch.b], ppc.ca)
     IN ppc' = [ppc EXCEPT !.gpr[Fetch.d] = r.rd, !.ca = r.ca, !.pc = @ + 1]
  /\ UNCHANGED <<transient_cache, allocations, write_head, signaled, capacity,
                 alignment, call, probe, invalidated, copy, arena, lease,
                 pending>>

ExecAddic ==
  /\ AtInstr("addic")
  /\ LET r == addic(ppc.gpr[Fetch.a], Fetch.b)
     IN ppc' = [ppc EXCEPT !.gpr[Fetch.d] = r.rd, !.ca = r.ca, !.pc = @ + 1]
  /\ UNCHANGED <<transient_cache, allocations, write_head, signaled, capacity,
                 alignment, call, probe, invalidated, copy, arena, lease,
                 pending>>

ExecXor ==
  /\ AtInstr("xor")
  /\ ppc' = [ppc EXCEPT !.gpr[Fetch.d] = xor(ppc.gpr[Fetch.a], ppc.gpr[Fetch.b]),
                        !.pc = @ + 1]
  /\ UNCHANGED <<transient_cache, allocations, write_head, signaled, capacity,
                 alignment, call, probe, invalidated, copy, arena, lease,
                 pending>>

ExecNot ==
  /\ AtInstr("not")
  /\ ppc' = [ppc EXCEPT !.gpr[Fetch.d] = not(ppc.gpr[Fetch.a]), !.pc = @ + 1]
  /\ UNCHANGED <<transient_cache, allocations, write_head, signaled, capacity,
                 alignment, call, probe, invalidated, copy, arena, lease,
                 pending>>

\* blr: the test returns and the runner compares the registers.
ExecBlr ==
  /\ AtInstr("blr")
  /\ ppc' = [ppc EXCEPT !.pc = 0]
  /\ UNCHANGED <<transient_cache, allocations, write_head, signaled, capacity,
                 alignment, call, probe, invalidated, copy, arena, lease,
                 pending>>

NextAdde ==
  \/ ExecAdde
  \/ ExecAddic
  \/ ExecXor
  \/ ExecNot
  \/ ExecBlr

SpecAdde == InitAdde /\ [][NextAdde]_vars

-----------------------------------------------------------------------------
(* Properties *)

Hit(c) == c.ret # VK_WHOLE_SIZE
AllocEnd(al) == al.offset + al.aligned_length
AllocIndices == 1..Len(allocations)

\* C1: every RangeCache entry refers to arena words inside an allocation that
\* has not been retired (no entry outlives the arena range it names), so a
\* vertex hit never returns a reclaimed or re-granted offset.
C1_CacheEntriesLive ==
  \A e \in transient_cache :
    \E i \in AllocIndices :
      /\ allocations[i].offset <= e.off
      /\ e.off + e.len <= AllocEnd(allocations[i])

\* C2: the ranges [offset, offset + aligned_length) of the unretired
\* allocations lie inside [0, capacity) and are pairwise disjoint, also after
\* the write cursor has wrapped to the arena start.
C2_LiveAllocationsDisjoint ==
  /\ \A i \in AllocIndices :
       /\ 0 <= allocations[i].offset
       /\ allocations[i].aligned_length > 0
       /\ AllocEnd(allocations[i]) <= capacity
  /\ \A i, j \in AllocIndices :
       i < j => \/ AllocEnd(allocations[i]) <= allocations[j].offset
                \/ AllocEnd(allocations[j]) <= allocations[i].offset

\* C2 witness: a later allocation lies below an earlier, still unretired one
\* (the cursor wrapped while data was outstanding).
C2_WrappedWhileOutstanding ==
  \E i, j \in AllocIndices :
    i < j /\ allocations[j].offset < allocations[i].offset

RECURSIVE OutstandingLength(_)
\* Sum of the aligned lengths of the allocations in a list.
OutstandingLength(allocs) ==
  IF allocs = <<>>
    THEN 0
    ELSE allocs[1].aligned_length + OutstandingLength(Tail(allocs))

\* The step is a call of Acquire through TryAllocateTransientData.
AcquireStep == call = Idle /\ call'.op = "TryAllocateTransientData"

\* [o, o + n) lies in the arena and meets no unretired allocation.
FreeSpan(o, n) ==
  /\ o + n <= capacity
  /\ \A i \in AllocIndices :
       \/ AllocEnd(allocations[i]) <= o
       \/ o + n <= allocations[i].offset

\* C3 as stated: an Acquire whose rounded length, added to the lengths of the
\* outstanding allocations, does not exceed the capacity never reports
\* Exhausted.
C3_NoExhaustWithinCapacity ==
  [][(AcquireStep
        /\ OutstandingLength(allocations)
             + RoundUp(call'.len, alignment) <= capacity)
       => call'.ret # VK_WHOLE_SIZE]_vars

\* C3 amended: an Acquire never reports Exhausted when its rounded length
\* fits, clear of every unretired allocation, at the write cursor or at the
\* arena start.
C3_NoExhaustWhenSpanFree ==
  [][(AcquireStep
        /\ \/ FreeSpan(write_head, RoundUp(call'.len, alignment))
           \/ FreeSpan(0, RoundUp(call'.len, alignment)))
       => call'.ret # VK_WHOLE_SIZE]_vars

\* C3 witness: Acquire granted the arena start while an allocation granted
\* earlier is still outstanding above it.
C3_GrantedAtStartAfterWrap ==
  /\ call.op = "TryAllocateTransientData"
  /\ call.ret = 0
  /\ Len(allocations) >= 2
  /\ allocations[Len(allocations)].offset = 0

\* C4: AllocateTransientData returns the first Acquire's offset without
\* scavenging when it succeeds; otherwise it scavenges once, calls Acquire
\* once more and returns that result, Exhausted included.
C4_AllocateRetriesOnce ==
  call.op = "AllocateTransientData" =>
    \/ /\ Len(call.ev) = 1
       /\ call.ev[1].e = "Acquire"
       /\ call.ev[1].a # VK_WHOLE_SIZE
       /\ call.ret = call.ev[1].a
    \/ /\ Len(call.ev) = 3
       /\ call.ev[1].e = "Acquire"
       /\ call.ev[1].a = VK_WHOLE_SIZE
       /\ call.ev[2].e = "Scavenge"
       /\ call.ev[3].e = "Acquire"
       /\ call.ret = call.ev[3].a

\* C4 witness: the first Acquire failed, the scavenge retired something and
\* the retry succeeded.
C4_RetrySucceeded ==
  /\ call.op = "AllocateTransientData"
  /\ Len(call.ev) = 3
  /\ call.ev[2].a > 0
  /\ call.ret # VK_WHOLE_SIZE

\* What the compare-and-swap copy is to write for element i.
ExpectedElement(c, i) ==
  LET value == byte_swap(Element(c.src, i, c.w))
  IN IF value = c.cmp_value THEN AllOnes(c.w) ELSE value

\* C5: for every count, every element of dest is all-ones where the swapped
\* source element equals the sentinel, and the swapped source element
\* otherwise.
C5_EveryElementSubstituted ==
  copy.pc \in {"vector", "both"} =>
    /\ Len(copy.dest) = copy.count * copy.w
    /\ \A i \in 0..(copy.count - 1) :
         Element(copy.dest, i, copy.w) = ExpectedElement(copy, i)

\* C6: the vectorized routine and the scalar routine write the same bytes
\* for the same source, sentinel and count.
C6_VectorEqualsScalar ==
  copy.pc = "both" => copy.dest = copy.ref

\* No 32-bit wrap in the sums Find and Insert compare.
NoWrap(a, l) == a + l < UInt32Wrap
CacheNoWrap == \A e \in transient_cache : NoWrap(e.addr, e.len)

\* An entry whose interval contains [a, a + l).
Contains(e, a, l) == e.addr <= a /\ a + l <= e.addr + e.len

\* The entry with the greatest guestAddress <= a.
IsPredecessor(e, a) ==
  /\ e \in transient_cache
  /\ e.addr <= a
  /\ \A x \in transient_cache : x.addr <= a => x.addr <= e.addr

FindReturned == call.op = "FindCachedTransientData"

\* C7 as stated (for sums that do not wrap): Find hits iff some present entry
\* contains the requested interval.
C7_FindHitsIffContained ==
  (FindReturned /\ CacheNoWrap /\ NoWrap(call.addr, call.len)) =>
    (Hit(call) <=>
       \E e \in transient_cache : Contains(e, call.addr, call.len))

\* C7 amended: Find hits iff the present entry with the greatest
\* guestAddress <= addr ends at or after the end of the requested interval,
\* both ends taken in 32-bit arithmetic. When no sum wraps, this is: iff that
\* entry contains the requested interval; a hit then returns that entry's
\* offset plus the distance into it, so it implies that some present entry
\* contains the interval.
C7_FindHitsIffPredecessorContains ==
  FindReturned =>
    /\ Hit(call) <=>
         \E e \in transient_cache :
           /\ IsPredecessor(e, call.addr)
           /\ Add32(e.addr, e.len) >= Add32(call.addr, call.len)
    /\ (CacheNoWrap /\ NoWrap(call.addr, call.len)) =>
         /\ Hit(call) <=>
              \E e \in transient_cache :
                /\ IsPredecessor(e, call.addr)
                /\ Contains(e, call.addr, call.len)
         /\ Hit(call) =>
              \E e \in transient_cache :
                /\ Contains(e, call.addr, call.len)
                /\ call.ret = e.off + (call.addr - e.addr)

\* C7 witness: Find missed although an entry that starts lower contains the
\* requested interval.
C7_MissDespiteContainingEntry ==
  /\ FindReturned /\ CacheNoWrap /\ NoWrap(call.addr, call.len)
  /\ ~Hit(call)
  /\ \E e \in transient_cache : Contains(e, call.addr, call.len)

\* C8: after Insert(address, length, offset) no other entry remains that
\* starts at or after address and lies entirely within
\* [address, address + length) (for sums that do not wrap).
C8_InsertRemovesContained ==
  (call.op = "CacheTransientData" /\ CacheNoWrap) =>
    \A e \in transient_cache :
      (e.addr >= call.addr /\ e.addr + e.len <= call.addr + call.len)
        => e = [addr |-> call.addr, len |-> call.len, off |-> call.ret]

VertexReturned == call.op = "UploadVertexBuffer"
Repeated == VertexReturned /\ call.prior.off # VK_WHOLE_SIZE
OnlyFind(c) == Len(c.ev) = 1 /\ c.ev[1].e = "Find"

\* C9 as stated: a call that repeats an earlier successful call, with no
\* InvalidateCache, ClearCache or Scavenge in between, returns the same
\* offset and does nothing but the lookup.
C9_RepeatReturnsSameOffset ==
  Repeated => (OnlyFind(call) /\ call.ret = call.prior.off)

\* C9 amended: such a call is a cache hit that does nothing but the lookup,
\* and it returns the same offset unless a miss in between uploaded a guest
\* range containing [a, a + l).
C9_RepeatIsHit ==
  Repeated =>
    /\ OnlyFind(call)
    /\ Hit(call)
    /\ call.ev[1].a = call.ret
    /\ ~call.prior.superseded => call.ret = call.prior.off

\* C9 witness: the repeated call returned another offset, after a miss that
\* uploaded a containing range.
C9_RepeatAfterContainingMiss ==
  /\ Repeated
  /\ call.prior.superseded
  /\ Hit(call)
  /\ call.ret # call.prior.off

CopyRoutines ==
  {"copy_and_swap_32_unaligned", "copy_and_swap_16_in_32_unaligned"}

\* The steps of a vertex miss that uploaded: lookup missed, allocation
\* (possibly with one scavenge and retry), copy, flush, barrier, insert.
FreshUpload(c) ==
  LET n == Len(c.ev)
  IN /\ n \in {6, 8}
     /\ c.ev[1] = Ev("Find", VK_WHOLE_SIZE, 0)
     /\ c.ev[2].e = "Acquire"
     /\ c.ev[n - 4].e = "Acquire"
     /\ c.ev[n - 4].a = c.ret
     /\ c.ev[n - 3].e \in CopyRoutines
     /\ c.ev[n - 3].a = c.ret
     /\ c.ev[n - 2] = Ev("Flush", c.ret, c.len)
     /\ c.ev[n - 1].e = "VERTEX_ATTRIBUTE_READ"
     /\ c.ev[n - 1].a = c.ret
     /\ c.ev[n - 1].b = c.len
     /\ c.ev[n] = Ev("Insert", c.addr, c.len)
     /\ [addr |-> c.addr, len |-> c.len, off |-> c.ret] \in transient_cache

\* The steps of a vertex miss that found no space: lookup missed, Acquire
\* failed, scavenge, Acquire failed again.
ExhaustedUpload(c) ==
  /\ Len(c.ev) = 4
  /\ c.ev[1] = Ev("Find", VK_WHOLE_SIZE, 0)
  /\ c.ev[2].e = "Acquire" /\ c.ev[2].a = VK_WHOLE_SIZE
  /\ c.ev[3].e = "Scavenge"
  /\ c.ev[4].e = "Acquire" /\ c.ev[4].a = VK_WHOLE_SIZE

\* C10: the first UploadVertexBuffer after InvalidateCache, ClearCache or
\* Scavenge takes the miss path: it allocates, copies, flushes, emits the
\* barrier and inserts the entry, or returns Exhausted.
C10_FreshUploadAfterInvalidate ==
  (VertexReturned /\ call.fresh) =>
    IF Hit(call) THEN FreshUpload(call) ELSE ExhaustedUpload(call)

\* C10 witness: the first vertex upload after an invalidation uploaded anew
\* while older allocations were still outstanding.
C10_UploadedAfterInvalidate ==
  /\ VertexReturned
  /\ call.fresh
  /\ Hit(call)
  /\ Len(allocations) >= 2

\* The step is a call of one of the operations ops.
CallStep(ops) == call = Idle /\ call'.op \in ops

\* The call made a step with one of the names.
HasEvent(c, names) == \E i \in 1..Len(c.ev) : c.ev[i].e \in names

\* The call was granted the arena range starting at its result.
Granted(c) ==
  \E i \in 1..Len(c.ev) : c.ev[i].e = "Acquire" /\ c.ev[i].a = c.ret

\* The call ran a copy routine on the arena range starting at its result.
Copied(c, routines) ==
  \E i \in 1..Len(c.ev) : c.ev[i].e \in routines /\ c.ev[i].a = c.ret

IndexRoutines ==
  {"copy_cmp_swap_16_unaligned", "copy_cmp_swap_32_unaligned",
   "copy_and_swap_16_unaligned", "copy_and_swap_32_unaligned"}
WriteSteps ==
  IndexRoutines \cup CopyRoutines
    \cup {"memcpy", "Flush", "INDEX_READ", "VERTEX_ATTRIBUTE_READ",
          "UNIFORM_READ|SHADER_READ", "Insert"}

\* C11: UploadIndexBuffer and UploadConstantRegisters neither look up nor
\* change the range cache; every call that is not Exhausted is granted a new
\* allocation and runs the copy engine on it.
C11_IndexAndConstantsBypassCache ==
  [][CallStep({"UploadIndexBuffer", "UploadConstantRegisters"}) =>
       /\ transient_cache' = transient_cache
       /\ ~HasEvent(call', {"Find", "Insert"})
       /\ Hit(call') =>
            /\ Len(allocations') > 0
            /\ allocations'[Len(allocations')].offset = call'.ret
            /\ Granted(call')
            /\ Copied(call', IndexRoutines \cup {"memcpy"})]_vars

\* C11 witness: an index upload was granted a new allocation although the
\* range cache holds an entry containing its guest range.
C11_IndexUploadOfCachedRange ==
  /\ call.op = "UploadIndexBuffer"
  /\ Hit(call)
  /\ \E e \in transient_cache : Contains(e, call.addr, call.len)

\* C12: InvalidateCache and ClearCache empty the range cache and leave the
\* allocator's cursor, its outstanding allocations and their fences as they
\* were.
C12_InvalidateLeavesAllocator ==
  [][CallStep({"InvalidateCache", "ClearCache"}) =>
       /\ transient_cache' = {}
       /\ allocations' = allocations
       /\ write_head' = write_head
       /\ signaled' = signaled
       /\ ReadHead(allocations', write_head')
            = ReadHead(allocations, write_head)]_vars

\* C12 witness: the cache was cleared while the oldest allocation's fence
\* had signaled, and the allocation is still outstanding.
C12_ClearedWithRetirableAllocation ==
  /\ call.op \in {"InvalidateCache", "ClearCache"}
  /\ Len(allocations) > 0
  /\ allocations[1].fence \in signaled

UploadOps ==
  {"UploadConstantRegisters", "UploadIndexBuffer", "UploadVertexBuffer"}

\* Every Acquire of the call failed.
AllocationFailed(c) ==
  /\ HasEvent(c, {"Acquire"})
  /\ \A i \in 1..Len(c.ev) :
       c.ev[i].e = "Acquire" => c.ev[i].a = VK_WHOLE_SIZE

\* C13: an upload returns Exhausted exactly when its allocation failed, and
\* then it has copied, flushed, emitted and cached nothing; every other
\* return is an offset inside the allocation granted to the call or, for a
\* vertex hit, the offset recorded in the range cache.
C13_ExhaustedUploadDoesNothing ==
  [][CallStep(UploadOps) =>
       /\ AllocationFailed(call') <=> ~Hit(call')
       /\ ~Hit(call') =>
            /\ ~HasEvent(call', WriteSteps)
            /\ transient_cache' = transient_cache
       /\ Hit(call') =>
            \/ /\ call'.op = "UploadVertexBuffer"
               /\ OnlyFind(call')
               /\ \E e \in transient_cache :
                    /\ Contains(e, call'.addr, call'.len)
                    /\ call'.ret = e.off + (call'.addr - e.addr)
            \/ /\ Granted(call')
               /\ Len(allocations') > 0
               /\ allocations'[Len(allocations')].offset = call'.ret
               /\ call'.ret + call'.len
                    <= AllocEnd(allocations'[Len(allocations')])]_vars

\* C13 witness: a vertex upload returned Exhausted while the range cache
\* held entries.
C13_VertexUploadExhausted ==
  /\ call.op = "UploadVertexBuffer"
  /\ ~Hit(call)
  /\ transient_cache # {}

\* after is before without its longest prefix of signaled allocations.
RetiredPrefix(before, after) ==
  \E n \in 0..Len(before) :
    /\ after = SubSeq(before, n + 1, Len(before))
    /\ \A i \in 1..n : before[i].fence \in signaled
    /\ n < Len(before) => before[n + 1].fence \notin signaled

\* The allocations a call left outstanding, without the one it was granted.
Retained(c, allocs) ==
  IF Hit(c) THEN SubSeq(allocs, 1, Len(allocs) - 1) ELSE allocs

\* C17: a scavenge, called directly or by AllocateTransientData before its
\* retry, retires exactly the longest grant-order prefix of allocations whose
\* fences have signaled: nothing unsignaled is retired, and a signaled
\* allocation behind an unsignaled one stays outstanding.
C17_ScavengeRetiresSignaledPrefix ==
  [][/\ CallStep({"CircularBuffer::Scavenge"}) =>
          RetiredPrefix(allocations, allocations')
     /\ (CallStep({"AllocateTransientData"}) /\ HasEvent(call', {"Scavenge"}))
          => RetiredPrefix(allocations, Retained(call', allocations'))]_vars

\* C17 witness: after a scavenge a signaled allocation is still outstanding
\* behind an unsignaled one.
C17_SignaledBehindUnsignaled ==
  /\ call.op = "CircularBuffer::Scavenge"
  /\ Len(allocations) >= 2
  /\ allocations[1].fence \notin signaled
  /\ allocations[2].fence \in signaled

\* C18: Find returns bufferOffset + (address - guestAddress) of the entry
\* with the greatest guestAddress <= address when that entry's
\* guestAddress + guestLength >= address + length, and Miss otherwise (also
\* when no entry starts at or below address); it never changes the cache.
C18_FindExaminesPredecessor ==
  [][CallStep({"FindCachedTransientData"}) =>
       /\ transient_cache' = transient_cache
       /\ IF \E e \in transient_cache :
               /\ IsPredecessor(e, call'.addr)
               /\ e.addr + e.len >= call'.addr + call'.len
            THEN \E e \in transient_cache :
                   /\ IsPredecessor(e, call'.addr)
                   /\ call'.ret = e.off + (call'.addr - e.addr)
            ELSE call'.ret = VK_WHOLE_SIZE]_vars

\* The scenario's first allocation (300 bytes, rounded to 512) is the only
\* one outstanding.
FirstOutstanding ==
  /\ Len(allocations) = 1
  /\ allocations[1].offset = 0
  /\ allocations[1].aligned_length = 128
  /\ write_head = 128

\* C15: in an arena of 4096 bytes with alignment 256, Acquire(300) on the
\* empty allocator returns offset 0; Acquire(4000) while that allocation is
\* outstanding returns Exhausted, also after a scavenge that retires nothing;
\* once its fence has signaled and a scavenge has run, Acquire(4000)
\* succeeds.
C15_ScenarioAcquire ==
  [][/\ (CallStep({"TryAllocateTransientData", "AllocateTransientData"})
           /\ allocations = <<>> /\ write_head = 0 /\ call'.len = 75)
          => (call'.ret = 0 /\ FirstOutstanding')
     /\ (CallStep({"TryAllocateTransientData"})
           /\ FirstOutstanding /\ call'.len = 1000)
          => (call'.ret = VK_WHOLE_SIZE /\ FirstOutstanding')
     /\ (CallStep({"AllocateTransientData"})
           /\ FirstOutstanding /\ call'.len = 1000
           /\ allocations[1].fence \notin signaled)
          => (call'.ret = VK_WHOLE_SIZE /\ FirstOutstanding')
     /\ (CallStep({"CircularBuffer::Scavenge"}) /\ FirstOutstanding)
          => IF allocations[1].fence \in signaled
               THEN allocations' = <<>> /\ write_head' = 128
               ELSE FirstOutstanding'
     /\ (CallStep({"TryAllocateTransientData", "AllocateTransientData"})
           /\ allocations = <<>> /\ write_head = 128 /\ call'.len = 1000)
          => (Hit(call') /\ Len(allocations') = 1)
     /\ (CallStep({"AllocateTransientData"})
           /\ FirstOutstanding /\ call'.len = 1000
           /\ allocations[1].fence \in signaled)
          => (Hit(call') /\ Len(allocations') = 1)]_vars

\* C15 witness: the 4000-byte request succeeded through AllocateTransientData
\* once the scavenge had retired the signaled first allocation.
C15_LargeRequestAfterRetire ==
  /\ call.op = "AllocateTransientData"
  /\ call.len = 1000
  /\ Len(call.ev) = 3
  /\ call.ev[2] = Ev("Scavenge", 1, 0)
  /\ Hit(call)

\* Entries in address order have strictly increasing ends.
CacheOrdered ==
  \A e1, e2 \in transient_cache :
    /\ e1.addr = e2.addr => e1 = e2
    /\ e1.addr < e2.addr => e1.addr + e1.len < e2.addr + e2.len

\* C19: when the range cache is changed only by UploadVertexBuffer misses
\* and by clearing (no sum wrapping), its entries have strictly increasing
\* guestAddress and strictly increasing ends, so none contains another, and
\* UploadVertexBuffer hits exactly when some present entry contains the
\* requested range.
C19_DrivenCacheOrdered ==
  /\ [](CacheOrdered
          /\ \A e1, e2 \in transient_cache :
               Contains(e1, e2.addr, e2.len) => e1 = e2)
  /\ [][CallStep({"UploadVertexBuffer"}) =>
          (OnlyFind(call') <=>
             \E e \in transient_cache :
               Contains(e, call'.addr, call'.len))]_vars

\* C19 witness: a hit while the cache holds three overlapping entries, none
\* containing another.
C19_HitAmongOverlappingEntries ==
  /\ VertexReturned
  /\ OnlyFind(call)
  /\ Cardinality(transient_cache) >= 3
  /\ \E e1, e2 \in transient_cache :
       e1.addr < e2.addr /\ e2.addr < e1.addr + e1.len

UnsupportedSelectors == {"k8in16", "unknown"}

\* C14: an upload called with an unsupported selector never returns a valid
\* offset for, nor caches, an arena range the copy engine did not write: it
\* stops in a failed assertion or returns an error.
C14_UnsupportedSelectorNeverServed ==
  (call.op \in UploadOps /\ call.sel \in UnsupportedSelectors) =>
    /\ Hit(call) =>
         IF OnlyFind(call)
           THEN \E w \in arena :
                  /\ w.off <= call.ret
                  /\ call.ret + call.len <= w.off + w.len
                  /\ w.addr + (call.ret - w.off) = call.addr
           ELSE Copied(call, ArenaWriters)
    /\ HasEvent(call, {"Insert"}) => Copied(call, ArenaWriters)

\* C16: a range UploadVertexBuffer returned under fence f, by a hit or by a
\* fresh upload, stays inside an unretired allocation (so it is neither
\* retired nor granted again) until f has signaled.
C16_ReturnedRangeLiveUntilFence ==
  (lease # NoLease /\ lease.fence \notin signaled) =>
    \E i \in AllocIndices :
      /\ allocations[i].offset <= lease.off
      /\ lease.off + lease.len <= AllocEnd(allocations[i])

\* The copy routine UploadVertexBuffer uses for an endian mode.
RoutineOf(endian) ==
  IF endian = "k8in32" THEN "copy_and_swap_32_unaligned"
                       ELSE "copy_and_swap_16_in_32_unaligned"

\* C20: a vertex hit for a supported endian mode returns arena words that,
\* where a vertex upload of this guest range wrote them, were written with
\* the requested mode's routine, never with the other mode's.
C20_HitServesRequestedEndian ==
  (VertexReturned /\ OnlyFind(call) /\ Hit(call) /\ call.sel \in EndianModes)
    => \A w \in arena :
         (/\ w.off <= call.ret
          /\ call.ret + call.len <= w.off + w.len
          /\ w.addr + (call.ret - w.off) = call.addr)
           => w.routine = RoutineOf(call.sel)


\* The length an upload call writes, flushes and covers with its barrier.
UploadLength(c) ==
  IF c.op = "UploadConstantRegisters"
    THEN kConstantRegisterUniformRange
    ELSE c.len

\* The copy routines and the barrier's destination access of each upload.
RoutinesOf(op) ==
  IF op = "UploadConstantRegisters" THEN {"memcpy"}
  ELSE IF op = "UploadIndexBuffer" THEN IndexRoutines
  ELSE CopyRoutines
DstAccessOf(op) ==
  IF op = "UploadConstantRegisters" THEN "UNIFORM_READ|SHADER_READ"
  ELSE IF op = "UploadIndexBuffer" THEN "INDEX_READ"
  ELSE "VERTEX_ATTRIBUTE_READ"
BarrierNames ==
  {"UNIFORM_READ|SHADER_READ", "INDEX_READ", "VERTEX_ATTRIBUTE_READ"}

\* The call is an upload that wrote data and returned a valid offset.
WroteData(c) ==
  /\ c.op \in UploadOps
  /\ Hit(c)
  /\ HasEvent(c, ArenaWriters \cup {"memcpy"})

\* C21: an upload that writes data and succeeds performs allocate, copy,
\* flush, barrier in this order: the grant of its offset, then the copy to
\* that offset, then one flush of exactly [offset, offset + length), then one
\* barrier on the same range from host write to the access of the upload
\* kind; nothing but the lookup and the allocation comes before, and the
\* vertex path inserts its cache entry last, after the barrier.
C21_UploadStepsInOrder ==
  WroteData(call) =>
    LET n == Len(call.ev)
        k == IF call.op = "UploadVertexBuffer" THEN n - 1 ELSE n
        len == UploadLength(call)
    IN /\ k >= 4
       /\ call.ev[k - 3].e = "Acquire"
       /\ call.ev[k - 3].a = call.ret
       /\ call.ev[k - 3].b >= len
       /\ call.ev[k - 2].e \in RoutinesOf(call.op)
       /\ call.ev[k - 2].a = call.ret
       /\ call.ev[k - 1] = Ev("Flush", call.ret, len)
       /\ call.ev[k] = [e |-> DstAccessOf(call.op), a |-> call.ret,
                        b |-> len, src |-> "HOST_WRITE"]
       /\ \A i \in 1..(k - 4) :
            call.ev[i].e \in {"Find", "Acquire", "Scavenge"}
       /\ \A i \in 1..n : call.ev[i].e \in BarrierNames => i = k
       /\ \A i \in 1..n : call.ev[i].e = "Flush" => i = k - 1
       /\ IF call.op = "UploadVertexBuffer"
            THEN /\ call.ev[n] = Ev("Insert", call.addr, len)
                 /\ \A i \in 1..k : call.ev[i].e # "Insert"
            ELSE ~HasEvent(call, {"Insert"})

\* C21 witness: a vertex miss whose first Acquire failed uploaded after the
\* retry, away from the start of the arena.
C21_UploadedAfterRetry ==
  /\ WroteData(call)
  /\ call.op = "UploadVertexBuffer"
  /\ HasEvent(call, {"Scavenge"})
  /\ call.ret > 0


\* Allocation i and every allocation granted after it stay outstanding in
\* this step, and no allocation granted in this step overlaps them.
KeptFrom(i) ==
  \E n \in 0..(i - 1) :
    /\ Len(allocations') >= Len(allocations) - n
    /\ \A j \in i..Len(allocations) : allocations'[j - n] = allocations[j]
    /\ \A k \in (Len(allocations) - n + 1)..Len(allocations') :
         \A j \in i..Len(allocations) :
           \/ AllocEnd(allocations'[k]) <= allocations[j].offset
           \/ AllocEnd(allocations[j]) <= allocations'[k].offset

\* C22: when every fence attached to a granted allocation eventually
\* signals, an upload whose rounded length fits the arena and which the
\* caller re-issues after every Exhausted result eventually returns a valid
\* offset; and as long as the fence of an allocation has not signaled, that
\* allocation and every allocation granted after it stay outstanding and
\* their space is granted to nobody else.
C22_ExhaustedIsNotPermanent ==
  /\ (/\ pending.exhausted
      /\ RoundUp(pending.len, alignment) <= capacity)
       ~> (/\ ~pending.exhausted
           /\ call.op \in UploadOps
           /\ call.len = pending.len
           /\ Hit(call))
  /\ [][pending.exhausted =>
         /\ pending'.len = pending.len
         /\ pending'.fence = pending.fence]_vars
  /\ [][\A i \in 1..Len(allocations) :
          allocations[i].fence \notin signaled => KeptFrom(i)]_vars

\* C22 witness: an upload that had been Exhausted returned a valid offset
\* when re-issued, after a scavenge that retired allocations, while an
\* allocation with an unsignaled fence is still outstanding.
C22_ReissueServed ==
  /\ pending.fence \in Fences
  /\ ~pending.exhausted
  /\ call.op \in UploadOps
  /\ Hit(call)
  /\ \E i \in 1..Len(call.ev) : call.ev[i].e = "Scavenge" /\ call.ev[i].a > 0
  /\ \E i \in 1..(Len(allocations) - 1) : allocations[i].fence \notin signaled


RECURSIVE SubLimbs(_, _, _)
\* The limbs of a - b - c modulo LimbBase ^ Len(a).
SubLimbs(a, b, c) ==
  IF a = <<>>
    THEN <<>>
    ELSE LET d == a[1] - b[1] - c
         IN <<(d + LimbBase) % LimbBase>>
              \o SubLimbs(Tail(a), Tail(b), IF d < 0 THEN 1 ELSE 0)

RECURSIVE Greater(_, _)
\* x > y as unsigned numbers.
Greater(x, y) ==
  IF x = <<>>
    THEN FALSE
    ELSE LET n == Len(x)
         IN \/ x[n] > y[n]
            \/ /\ x[n] = y[n]
               /\ Greater(SubSeq(x, 1, n - 1), SubSeq(y, 1, n - 1))

\* rA + rB + CA >= 2^64, stated without adding: rB + CA > 2^64 - 1 - rA.
CarriesOut(ra, rb, ca) ==
  \/ Greater(rb, not(ra))
  \/ rb = not(ra) /\ ca = 1

\* The test has returned.
Finished == ppc.prog # "none" /\ ppc.pc = 0

\* C23: adde yields rD = (rA + rB + CA) mod 2^64 with the carry bit as it was
\* before the instruction, sets CA to 1 exactly when rA + rB + CA >= 2^64
\* and changes no other register; adde r6, r0, r0 with r0 = 0 yields the
\* carry the instruction before it produced; and every test of the file
\* ends with the register values its REGISTER_OUT lines state.
C23_AddeAddsWithCarry ==
  /\ [][AtInstr("adde") =>
         LET i == Fetch
             ra == ppc.gpr[i.a]
             rb == ppc.gpr[i.b]
         IN /\ SubLimbs(ppc'.gpr[i.d], rb, ppc.ca) = ra
            /\ ppc'.ca = IF CarriesOut(ra, rb, ppc.ca) THEN 1 ELSE 0
            /\ \A r \in Registers \ {i.d} : ppc'.gpr[r] = ppc.gpr[r]
            /\ (i.a = 0 /\ i.b = 0 /\ ppc.gpr[0] = Word(0))
                 => ppc'.gpr[i.d] = Word(ppc.ca)]_vars
  /\ [](\A t \in Tests :
          (Finished /\ ppc.prog = t.prog /\ ppc.in = <<t.r4, t.r5>>) =>
            /\ ppc.gpr[3] = t.r3
            /\ ppc.gpr[4] = t.r4
            /\ ppc.gpr[5] = t.r5
            /\ ppc.gpr[6] = t.r6)

\* C23 witness: test_adde_10 has returned: 0x7FFFFFFFFFFFFFFF plus
\* 0xFFFFFFFFFFFFFFFF plus the carry bit gave 0x7FFFFFFFFFFFFFFF, and r6
\* holds the carry.
C23_Test10Returned ==
  /\ Finished
  /\ ppc.prog = "carry"
  /\ ppc.in = <<MaxInt64, AllOnes64>>
  /\ ppc.gpr[3] = MaxInt64
  /\ ppc.gpr[6] = Word(1)

=============================================================================
